---- MODULE Spec2Model ----
(***************************************************************************)
(* pallets/token-dealer/src/support.rs: the XCM asset transactor           *)
(* MultiCurrencyAdapter (deposit_asset, withdraw_asset), its amount        *)
(* matcher IsConcreteWithGeneralKey and its currency resolver              *)
(* CurrencyIdConverter, over a token ledger (token_factory::TokenMinter)   *)
(* and a native ledger (frame_support::traits::Currency).                  *)
(*                                                                         *)
(* Integer widths are scaled down: u128 is an unsigned integer of Bits128  *)
(* bits and the balance type B one of BitsB bits, so that every overflow   *)
(* case of the real widths has a counterpart TLC can enumerate.            *)
(***************************************************************************)
EXTENDS Integers, Sequences, FiniteSets, TLC

VARIABLES
    tokenBal,        \* token ledger: [TokenIds -> [Accounts -> Nat]]
    nativeBal,       \* native ledger: free balance of each account
    nativeExists,    \* native ledger: which accounts exist
    overflow_checks, \* build profile: does u128 arithmetic trap on overflow
    last             \* the most recent call of the adapter and its outcome

vars == <<tokenBal, nativeBal, nativeExists, overflow_checks, last>>

--------------------------------------------------------------------------
\* Bounds

\* stand-in for the 128 bits of u128
Bits128 == 28
\* stand-in for the width of NativeCurrency::Balance (B: TryFrom<u128>)
BitsB == 27
\* the token ledger's supply cap per token
MaxSupply == 500
\* largest native balance the model lets an account reach
MaxNative == 1000000

RECURSIVE Pow2(_)
Pow2(n) == IF n = 0 THEN 1 ELSE 2 * Pow2(n - 1)

U128Mod == Pow2(Bits128)
BMod == Pow2(BitsB)

\* (a * b) % m, computed without leaving the range of m
RECURSIVE MulMod(_, _, _)
MulMod(a, b, m) ==
    IF b = 0 THEN 0
    ELSE LET h == MulMod(a, b \div 2, m)
             d == (h + h) % m
         IN IF b % 2 = 1 THEN (d + (a % m)) % m ELSE d

--------------------------------------------------------------------------
\* Values

None == [tag |-> "None", val |-> 0]
Some(v) == [tag |-> "Some", val |-> v]
Panic == [tag |-> "Panic", val |-> 0]

\* xcm::v0::Junction
Parent == [kind |-> "Parent", key |-> <<>>]
GeneralKey(k) == [kind |-> "GeneralKey", key |-> k]
AccountKey20(k) == [kind |-> "AccountKey20", key |-> k]
Parachain == [kind |-> "Parachain", key |-> <<>>]

\* token_factory::CurrencyId
Native == [kind |-> "Native", id |-> 0]
Token(id) == [kind |-> "Token", id |-> id]

\* xcm::v0::MultiAsset
ConcreteFungible(id, amount) ==
    [shape |-> "ConcreteFungible", id |-> id, key |-> <<>>, amount |-> amount]
ConcreteNonFungible(class) ==
    [shape |-> "ConcreteNonFungible", id |-> class, key |-> <<>>, amount |-> 0]
AbstractFungible(key, amount) ==
    [shape |-> "AbstractFungible", id |-> <<>>, key |-> key, amount |-> amount]

TokenIds == {1, 7}
Accounts == {<<10>>, <<11>>}

--------------------------------------------------------------------------
\* Collaborators

\* the configured relay-to-local factor, convert(x) = x * 1_000_000
Scale == 1000000

\* FromRelayChainBalance::convert, u128 -> u128: a multiplication in u128,
\* which traps in a build with overflow checks and wraps in one without
convert(x) ==
    IF x <= (U128Mod - 1) \div Scale THEN Some(x * Scale)
    ELSE IF overflow_checks THEN Panic
    ELSE Some(MulMod(x, Scale, U128Mod))

\* the currency-key codec: a key is the one byte of its token id
decode(key) ==
    IF Len(key) = 1 /\ key[1] \in TokenIds THEN Some(key[1]) ELSE None

\* CurrencyId: TryFrom<Vec<u8>>
CurrencyId_try_from(key) ==
    IF decode(key).tag = "Some" THEN Some(Token(decode(key).val)) ELSE None

\* RelayChainCurrencyId::get()
RelayChainCurrencyId == Native

\* AccountIdConverter::from_location
from_location(location) ==
    IF Len(location) = 1 /\ location[1].kind = "AccountKey20"
       /\ location[1].key \in Accounts
    THEN Some(location[1].key) ELSE None

\* MultiLocation::last
Last(location) ==
    IF Len(location) = 0 THEN None ELSE Some(location[Len(location)])

X1Parent == <<Parent>>

\* CheckedConversion::checked_from, u128 -> B
checked_from(x) == IF x < BMod THEN Some(x) ELSE None

--------------------------------------------------------------------------
\* IsConcreteWithGeneralKey::matches_fungible

\* mutant: the relay amount is passed on without the rescale
matches_fungible_no_rescale(a) ==
    IF a.shape = "ConcreteFungible"
    THEN IF a.id = X1Parent
         THEN checked_from(a.amount)
         ELSE IF /\ Last(a.id).tag = "Some"
                 /\ Last(a.id).val.kind = "GeneralKey"
                 /\ CurrencyId_try_from(Last(a.id).val.key).tag = "Some"
              THEN checked_from(a.amount)
              ELSE None
    ELSE None

matches_fungible(a) ==
    IF a.shape = "ConcreteFungible"
    THEN IF a.id = X1Parent
         THEN LET local_amount == convert(a.amount) IN
              IF local_amount.tag = "Panic" THEN Panic
              ELSE checked_from(local_amount.val)
         ELSE IF /\ Last(a.id).tag = "Some"
                 /\ Last(a.id).val.kind = "GeneralKey"
                 /\ CurrencyId_try_from(Last(a.id).val.key).tag = "Some"
              THEN checked_from(a.amount)
              ELSE None
    ELSE None

\* CurrencyIdConverter::from_asset

\* mutant: the shape of the asset is not looked at
from_asset_any_shape(asset) ==
    IF asset.id = X1Parent
    THEN Some(RelayChainCurrencyId)
    ELSE IF Last(asset.id).tag = "Some" /\ Last(asset.id).val.kind = "GeneralKey"
         THEN CurrencyId_try_from(Last(asset.id).val.key)
         ELSE None

\* mutant: the key is looked for in the first segment, not the last
from_asset_first(asset) ==
    IF asset.shape = "ConcreteFungible"
    THEN IF asset.id = X1Parent
         THEN Some(RelayChainCurrencyId)
         ELSE IF Len(asset.id) > 0 /\ asset.id[1].kind = "GeneralKey"
              THEN CurrencyId_try_from(asset.id[1].key)
              ELSE None
    ELSE None

\* mutant: every location that starts at the parent is the relay's asset
from_asset_parent_prefix(asset) ==
    IF asset.shape = "ConcreteFungible"
    THEN IF Len(asset.id) > 0 /\ asset.id[1] = Parent
         THEN Some(RelayChainCurrencyId)
         ELSE IF Last(asset.id).tag = "Some" /\ Last(asset.id).val.kind = "GeneralKey"
              THEN CurrencyId_try_from(Last(asset.id).val.key)
              ELSE None
    ELSE None

from_asset(asset) ==
    IF asset.shape = "ConcreteFungible"
    THEN IF asset.id = X1Parent
         THEN Some(RelayChainCurrencyId)
         ELSE IF Last(asset.id).tag = "Some" /\ Last(asset.id).val.kind = "GeneralKey"
              THEN CurrencyId_try_from(Last(asset.id).val.key)
              ELSE None
    ELSE None

--------------------------------------------------------------------------
\* Ledgers

Call(fn, id, who, amount) == [fn |-> fn, id |-> id, who |-> who, amount |-> amount]

TotalSupply(tb, id) ==
    LET RECURSIVE Sum(_)
        Sum(S) == IF S = {} THEN 0
                  ELSE LET a == CHOOSE x \in S : TRUE IN tb[id][a] + Sum(S \ {a})
    IN Sum(Accounts)

\* TokenFactory::mint
mint_ok(tb, id, who, amount) == TotalSupply(tb, id) + amount <= MaxSupply
mint(tb, id, who, amount) ==
    IF mint_ok(tb, id, who, amount)
    THEN [tb EXCEPT ![id][who] = @ + amount] ELSE tb

\* TokenFactory::burn
burn_ok(tb, id, who, amount) == tb[id][who] >= amount
burn(tb, id, who, amount) ==
    IF burn_ok(tb, id, who, amount)
    THEN [tb EXCEPT ![id][who] = @ - amount] ELSE tb

\* NativeCurrency::deposit_creating
deposit_creating(nat, who, amount) ==
    [bal |-> [nat.bal EXCEPT ![who] = @ + amount],
     exists |-> [nat.exists EXCEPT ![who] = TRUE]]

\* NativeCurrency::withdraw(who, amount, TRANSFER, AllowDeath)
withdraw_ok(nat, who, amount) == nat.bal[who] >= amount
withdraw(nat, who, amount) ==
    IF withdraw_ok(nat, who, amount)
    THEN [bal |-> [nat.bal EXCEPT ![who] = @ - amount],
          exists |-> [nat.exists EXCEPT ![who] = nat.bal[who] - amount > 0]]
    ELSE nat

--------------------------------------------------------------------------
\* MultiCurrencyAdapter

Ledgers == [tokenBal |-> tokenBal,
            native |-> [bal |-> nativeBal, exists |-> nativeExists]]

\* an early return through `?`: Err(()) becomes xcm::v0::Error::Undefined;
\* kind names the statement that returned
Err(kind, calls) ==
    [ok |-> FALSE, err |-> "Undefined", kind |-> kind, ret |-> <<>>,
     calls |-> calls, tokenBal |-> tokenBal,
     native |-> [bal |-> nativeBal, exists |-> nativeExists]]

\* a trap inside the call: nothing is returned and nothing is written
Trap ==
    [ok |-> FALSE, err |-> "Trap", kind |-> "Panic", ret |-> <<>>,
     calls |-> <<>>, tokenBal |-> tokenBal,
     native |-> [bal |-> nativeBal, exists |-> nativeExists]]

Ok(ret, calls, tb, nat) ==
    [ok |-> TRUE, err |-> "None", kind |-> "None", ret |-> ret,
     calls |-> calls, tokenBal |-> tb, native |-> nat]

\* mutant: an amount that does not match defaults to zero
deposit_asset_default_amount(asset, location) ==
    LET who == from_location(location)
        currency == from_asset(asset)
        matched == matches_fungible(asset)
        amount == IF matched.tag = "None" THEN Some(0) ELSE matched
        nat == [bal |-> nativeBal, exists |-> nativeExists]
    IN
    IF who.tag # "Some" THEN Err("UnknownAccount", <<>>)
    ELSE IF currency.tag # "Some" THEN Err("UnrecognizedAsset", <<>>)
    ELSE IF amount.tag = "Panic" THEN Trap
    ELSE IF currency.val.kind = "Token"
         THEN LET c == Call("mint", currency.val.id, who.val, amount.val) IN
              IF mint_ok(tokenBal, currency.val.id, who.val, amount.val)
              THEN Ok(<<>>, <<c>>,
                      mint(tokenBal, currency.val.id, who.val, amount.val), nat)
              ELSE Err("LedgerRejected", <<c>>)
         ELSE Ok(<<>>, <<Call("deposit_creating", 0, who.val, amount.val)>>,
                 tokenBal, deposit_creating(nat, who.val, amount.val))

\* mutant: the result of mint is dropped
deposit_asset_ignore_mint_err(asset, location) ==
    LET who == from_location(location)
        currency == from_asset(asset)
        amount == matches_fungible(asset)
        nat == [bal |-> nativeBal, exists |-> nativeExists]
    IN
    IF who.tag # "Some" THEN Err("UnknownAccount", <<>>)
    ELSE IF currency.tag # "Some" THEN Err("UnrecognizedAsset", <<>>)
    ELSE IF amount.tag = "Panic" THEN Trap
    ELSE IF amount.tag # "Some" THEN Err("AmountMismatch", <<>>)
    ELSE IF currency.val.kind = "Token"
         THEN Ok(<<>>, <<Call("mint", currency.val.id, who.val, amount.val)>>,
                 mint(tokenBal, currency.val.id, who.val, amount.val), nat)
         ELSE Ok(<<>>, <<Call("deposit_creating", 0, who.val, amount.val)>>,
                 tokenBal, deposit_creating(nat, who.val, amount.val))

deposit_asset(asset, location) ==
    LET who == from_location(location)
        currency == from_asset(asset)
        amount == matches_fungible(asset)
        nat == [bal |-> nativeBal, exists |-> nativeExists]
    IN
    IF who.tag # "Some" THEN Err("UnknownAccount", <<>>)
    ELSE IF currency.tag # "Some" THEN Err("UnrecognizedAsset", <<>>)
    ELSE IF amount.tag = "Panic" THEN Trap
    ELSE IF amount.tag # "Some" THEN Err("AmountMismatch", <<>>)
    ELSE IF currency.val.kind = "Token"
         THEN LET c == Call("mint", currency.val.id, who.val, amount.val) IN
              IF mint_ok(tokenBal, currency.val.id, who.val, amount.val)
              THEN Ok(<<>>, <<c>>,
                      mint(tokenBal, currency.val.id, who.val, amount.val), nat)
              ELSE Err("LedgerRejected", <<c>>)
         ELSE Ok(<<>>, <<Call("deposit_creating", 0, who.val, amount.val)>>,
                 tokenBal, deposit_creating(nat, who.val, amount.val))

\* mutant: the results of burn and withdraw are dropped
withdraw_asset_ignore_err(asset, location) ==
    LET who == from_location(location)
        currency == from_asset(asset)
        amount == matches_fungible(asset)
        nat == [bal |-> nativeBal, exists |-> nativeExists]
    IN
    IF who.tag # "Some" THEN Err("UnknownAccount", <<>>)
    ELSE IF currency.tag # "Some" THEN Err("UnrecognizedAsset", <<>>)
    ELSE IF amount.tag = "Panic" THEN Trap
    ELSE IF amount.tag # "Some" THEN Err("AmountMismatch", <<>>)
    ELSE IF currency.val.kind = "Token"
         THEN Ok(<<asset>>, <<Call("burn", currency.val.id, who.val, amount.val)>>,
                 burn(tokenBal, currency.val.id, who.val, amount.val), nat)
         ELSE Ok(<<asset>>, <<Call("withdraw_AllowDeath", 0, who.val, amount.val)>>,
                 tokenBal, withdraw(nat, who.val, amount.val))

\* mutant: the token branch is a copy of the deposit's and mints
withdraw_asset_mints(asset, location) ==
    LET who == from_location(location)
        currency == from_asset(asset)
        amount == matches_fungible(asset)
        nat == [bal |-> nativeBal, exists |-> nativeExists]
    IN
    IF who.tag # "Some" THEN Err("UnknownAccount", <<>>)
    ELSE IF currency.tag # "Some" THEN Err("UnrecognizedAsset", <<>>)
    ELSE IF amount.tag = "Panic" THEN Trap
    ELSE IF amount.tag # "Some" THEN Err("AmountMismatch", <<>>)
    ELSE IF currency.val.kind = "Token"
         THEN LET c == Call("mint", currency.val.id, who.val, amount.val) IN
              IF mint_ok(tokenBal, currency.val.id, who.val, amount.val)
              THEN Ok(<<asset>>, <<c>>,
                      mint(tokenBal, currency.val.id, who.val, amount.val), nat)
              ELSE Err("LedgerRejected", <<c>>)
         ELSE LET c == Call("withdraw_AllowDeath", 0, who.val, amount.val) IN
              IF withdraw_ok(nat, who.val, amount.val)
              THEN Ok(<<asset>>, <<c>>, tokenBal, withdraw(nat, who.val, amount.val))
              ELSE Err("LedgerRejected", <<c>>)

\* mutant: the asset returned carries the resolved amount, not the raw one
withdraw_asset_echo_resolved(asset, location) ==
    LET who == from_location(location)
        currency == from_asset(asset)
        amount == matches_fungible(asset)
        nat == [bal |-> nativeBal, exists |-> nativeExists]
    IN
    IF who.tag # "Some" THEN Err("UnknownAccount", <<>>)
    ELSE IF currency.tag # "Some" THEN Err("UnrecognizedAsset", <<>>)
    ELSE IF amount.tag = "Panic" THEN Trap
    ELSE IF amount.tag # "Some" THEN Err("AmountMismatch", <<>>)
    ELSE LET echo == [asset EXCEPT !.amount = amount.val] IN
         IF currency.val.kind = "Token"
         THEN LET c == Call("burn", currency.val.id, who.val, amount.val) IN
              IF burn_ok(tokenBal, currency.val.id, who.val, amount.val)
              THEN Ok(<<echo>>, <<c>>,
                      burn(tokenBal, currency.val.id, who.val, amount.val), nat)
              ELSE Err("LedgerRejected", <<c>>)
         ELSE LET c == Call("withdraw_AllowDeath", 0, who.val, amount.val) IN
              IF withdraw_ok(nat, who.val, amount.val)
              THEN Ok(<<echo>>, <<c>>, tokenBal, withdraw(nat, who.val, amount.val))
              ELSE Err("LedgerRejected", <<c>>)

withdraw_asset(asset, location) ==
    LET who == from_location(location)
        currency == from_asset(asset)
        amount == matches_fungible(asset)
        nat == [bal |-> nativeBal, exists |-> nativeExists]
    IN
    IF who.tag # "Some" THEN Err("UnknownAccount", <<>>)
    ELSE IF currency.tag # "Some" THEN Err("UnrecognizedAsset", <<>>)
    ELSE IF amount.tag = "Panic" THEN Trap
    ELSE IF amount.tag # "Some" THEN Err("AmountMismatch", <<>>)
    ELSE IF currency.val.kind = "Token"
         THEN LET c == Call("burn", currency.val.id, who.val, amount.val) IN
              IF burn_ok(tokenBal, currency.val.id, who.val, amount.val)
              THEN Ok(<<asset>>, <<c>>,
                      burn(tokenBal, currency.val.id, who.val, amount.val), nat)
              ELSE Err("LedgerRejected", <<c>>)
         ELSE LET c == Call("withdraw_AllowDeath", 0, who.val, amount.val) IN
              IF withdraw_ok(nat, who.val, amount.val)
              THEN Ok(<<asset>>, <<c>>, tokenBal, withdraw(nat, who.val, amount.val))
              ELSE Err("LedgerRejected", <<c>>)

--------------------------------------------------------------------------
\* Inputs

\* the largest raw relay amount whose rescaled value fits B
RawFitB == (BMod - 1) \div Scale
\* a raw relay amount whose rescaled value exceeds u128: Scale = 64 * 15625,
\* so (U128Mod / 64 + 1) * Scale = 15625 * U128Mod + Scale
RawWrap == U128Mod \div 64 + 1

RelayRaws == {1, RawFitB + 1, RawWrap}
TokenRaws == {500, BMod}

Assets ==
    {ConcreteFungible(X1Parent, r) : r \in RelayRaws}
    \cup {ConcreteFungible(<<GeneralKey(<<7>>)>>, r) : r \in TokenRaws}
    \cup {ConcreteFungible(<<Parent, GeneralKey(<<1>>)>>, 500),
          ConcreteFungible(<<GeneralKey(<<9>>)>>, 500),
          ConcreteFungible(<<GeneralKey(<<7>>), Parent>>, 500),
          ConcreteFungible(<<>>, 500),
          ConcreteFungible(<<Parachain>>, 500),
          ConcreteNonFungible(X1Parent),
          ConcreteNonFungible(<<GeneralKey(<<7>>)>>),
          AbstractFungible(<<7>>, 500)}

Locations ==
    {<<AccountKey20(a)>> : a \in Accounts} \cup {<<AccountKey20(<<12>>)>>}

--------------------------------------------------------------------------
\* Specification

NoCall == [op |-> "none", asset |-> ConcreteFungible(<<>>, 0), location |-> <<>>,
           ok |-> TRUE, err |-> "None", kind |-> "None", ret |-> <<>>,
           calls |-> <<>>, follows |-> <<>>,
           before |-> [tokenBal |-> [i \in TokenIds |-> [a \in Accounts |-> 0]],
                       native |-> [bal |-> [a \in Accounts |-> 0],
                                   exists |-> [a \in Accounts |-> FALSE]]]]

Init ==
    /\ tokenBal = [i \in TokenIds |-> [a \in Accounts |-> 0]]
    /\ nativeBal = [a \in Accounts |-> 0]
    /\ nativeExists = [a \in Accounts |-> FALSE]
    /\ overflow_checks \in BOOLEAN
    /\ last = NoCall

\* when the call before this one was a successful deposit of the same
\* (asset, location) pair: the ledger calls it made and the ledgers before it
Follows(asset, location) ==
    IF last.op = "deposit" /\ last.ok /\ last.asset = asset /\ last.location = location
    THEN <<[calls |-> last.calls, before |-> last.before]>>
    ELSE <<>>

Apply(op, asset, location, o) ==
    /\ \A a \in Accounts : o.native.bal[a] <= MaxNative
    /\ tokenBal' = o.tokenBal
    /\ nativeBal' = o.native.bal
    /\ nativeExists' = o.native.exists
    /\ last' = [op |-> op, asset |-> asset, location |-> location,
                ok |-> o.ok, err |-> o.err, kind |-> o.kind, ret |-> o.ret,
                calls |-> o.calls, follows |-> Follows(asset, location),
                before |-> Ledgers]
    /\ UNCHANGED overflow_checks

Deposit ==
    \E asset \in Assets, location \in Locations :
        Apply("deposit", asset, location, deposit_asset(asset, location))

Withdraw ==
    \E asset \in Assets, location \in Locations :
        Apply("withdraw", asset, location, withdraw_asset(asset, location))

Next == Deposit \/ Withdraw

Spec == Init /\ [][Next]_vars

--------------------------------------------------------------------------
\* What the last call was about

Called == last.op # "none"
Resolvable == from_location(last.location).tag = "Some"
Who == last.location[1].key
Raw == last.asset.amount

IsRelay(a) == a.shape = "ConcreteFungible" /\ a.id = X1Parent
IsTagged(a) ==
    /\ a.shape = "ConcreteFungible"
    /\ a.id # X1Parent
    /\ Len(a.id) > 0
    /\ a.id[Len(a.id)].kind = "GeneralKey"
TagKey(a) == a.id[Len(a.id)].key
IsDecodable(a) == IsTagged(a) /\ decode(TagKey(a)).tag = "Some"

ResolutionFailed == last.kind \in {"UnknownAccount", "UnrecognizedAsset", "AmountMismatch"}
ResolutionDone == last.kind \in {"None", "LedgerRejected"}

--------------------------------------------------------------------------
\* C1: when account resolution, currency resolution or amount matching
\* fails, deposit_asset and withdraw_asset return an error, issue no ledger
\* call and leave every token and native balance as it was before the call,
\* whatever calls came earlier.
C1_ResolveThenAct ==
    (/\ Called
     /\ \/ from_location(last.location).tag = "None"
        \/ from_asset(last.asset).tag = "None"
        \/ matches_fungible(last.asset).tag = "None")
    => /\ ~last.ok
       /\ ResolutionFailed
       /\ last.ret = <<>>
       /\ last.calls = <<>>
       /\ Ledgers = last.before

\* a failed resolution after earlier calls have filled the ledgers
C1_Witness ==
    /\ last.op = "withdraw"
    /\ last.kind = "AmountMismatch"
    /\ tokenBal[7][<<10>>] > 0
    /\ nativeBal[<<11>>] > 0

\* C2: a deposit whose location resolves, whose asset resolves to Token(id)
\* and whose matcher yields a issues exactly the call mint(id, account, a)
\* with a the raw amount, leaves the native ledger alone, succeeds iff mint
\* succeeds, and a rejected mint is an error with no credit.
C2_DepositToken ==
    (/\ last.op = "deposit"
     /\ Resolvable
     /\ from_asset(last.asset).tag = "Some"
     /\ from_asset(last.asset).val.kind = "Token"
     /\ matches_fungible(last.asset).tag = "Some")
    => LET id == TagKey(last.asset)[1]
           accepted == TotalSupply(last.before.tokenBal, id) + Raw <= MaxSupply
       IN /\ last.calls = <<Call("mint", id, Who, Raw)>>
          /\ (last.asset = ConcreteFungible(<<GeneralKey(<<7>>)>>, 500)
                => last.calls = <<Call("mint", 7, Who, 500)>>)
          /\ nativeBal = last.before.native.bal
          /\ nativeExists = last.before.native.exists
          /\ last.ok <=> accepted
          /\ last.ok =>
                tokenBal = [last.before.tokenBal EXCEPT ![id][Who] = @ + Raw]
          /\ ~last.ok =>
                /\ last.kind = "LedgerRejected"
                /\ last.err = "Undefined"
                /\ tokenBal = last.before.tokenBal

\* the scenario: key of token 7, raw amount 500, minted
C2_Witness ==
    /\ last.op = "deposit"
    /\ last.ok
    /\ last.asset = ConcreteFungible(<<GeneralKey(<<7>>)>>, 500)
    /\ last.calls = <<Call("mint", 7, <<10>>, 500)>>
    /\ tokenBal[7][<<10>>] = 500

\* C3: a deposit of the relay-native asset whose resolution succeeded cannot
\* fail: it issues exactly deposit_creating(account, convert(raw)), the raw
\* amount times 1_000_000, the account exists afterwards with that much
\* more, and the token ledger is unchanged.
C3_DepositRelay ==
    (/\ last.op = "deposit"
     /\ IsRelay(last.asset)
     /\ Resolvable
     /\ last.kind \notin {"AmountMismatch", "Panic"})
    => LET amount == convert(Raw).val
       IN /\ last.ok
          /\ last.calls = <<Call("deposit_creating", 0, Who, amount)>>
          /\ (Raw <= (U128Mod - 1) \div 1000000 => amount = Raw * 1000000)
          /\ tokenBal = last.before.tokenBal
          /\ nativeExists[Who]
          /\ nativeBal = [last.before.native.bal EXCEPT ![Who] = @ + amount]

\* raw 1 credited as 1_000_000 to an account that did not exist
C3_Witness ==
    /\ last.op = "deposit"
    /\ last.asset = ConcreteFungible(X1Parent, 1)
    /\ last.ok
    /\ ~last.before.native.exists[<<11>>]
    /\ nativeExists[<<11>>]
    /\ nativeBal[<<11>>] = 1000000

\* C4: a withdraw whose ledger call is rejected (burn, or the native debit
\* for insufficient funds) returns the ledger-rejection error and no asset,
\* and leaves every token and native balance unchanged.
C4_WithdrawRejected ==
    (/\ last.op = "withdraw"
     /\ Len(last.calls) = 1
     /\ \/ /\ last.calls[1].fn = "burn"
           /\ last.before.tokenBal[last.calls[1].id][last.calls[1].who]
                 < last.calls[1].amount
        \/ /\ last.calls[1].fn = "withdraw_AllowDeath"
           /\ last.before.native.bal[last.calls[1].who] < last.calls[1].amount)
    => /\ ~last.ok
       /\ last.kind = "LedgerRejected"
       /\ last.err = "Undefined"
       /\ last.ret = <<>>
       /\ Ledgers = last.before

\* a burn rejected while the ledgers hold balances
C4_Witness ==
    /\ last.op = "withdraw"
    /\ last.kind = "LedgerRejected"
    /\ last.calls = <<Call("burn", 7, <<11>>, 500)>>
    /\ tokenBal[7][<<10>>] = 500

\* C5: a withdraw that directly follows a successful token deposit of the
\* same (asset, location) pair succeeds, burns exactly what was minted, and
\* leaves the account's token balance and the token's total supply as they
\* were before the deposit.
C5_DepositThenWithdraw ==
    (/\ last.op = "withdraw"
     /\ last.follows # <<>>
     /\ last.follows[1].calls[1].fn = "mint")
    => LET minted == last.follows[1].calls[1]
           start == last.follows[1].before.tokenBal
       IN /\ last.ok
          /\ last.calls = <<Call("burn", minted.id, minted.who, minted.amount)>>
          /\ tokenBal[minted.id][minted.who] = start[minted.id][minted.who]
          /\ TotalSupply(tokenBal, minted.id) = TotalSupply(start, minted.id)
          /\ tokenBal = start

\* token 7 minted to an account and burned again by the next call
C5_Witness ==
    /\ last.op = "withdraw"
    /\ last.ok
    /\ last.follows # <<>>
    /\ last.follows[1].calls = <<Call("mint", 7, <<10>>, 500)>>
    /\ last.before.tokenBal[7][<<10>>] = 500
    /\ tokenBal[7][<<10>>] = 0

\* C6 as stated: an asset that is not concrete fungible, with a resolvable
\* location, fails with AmountMismatch.
C6_Original ==
    (Called /\ Resolvable /\ last.asset.shape # "ConcreteFungible")
    => last.kind = "AmountMismatch"

\* C6 amended: such an asset fails at currency resolution (UnrecognizedAsset),
\* before the matcher is asked, with the one error value every failure
\* returns, and no ledger is touched.
C6_NotConcreteFungible ==
    (Called /\ Resolvable /\ last.asset.shape # "ConcreteFungible")
    => /\ ~last.ok
       /\ last.kind = "UnrecognizedAsset"
       /\ last.err = "Undefined"
       /\ last.ret = <<>>
       /\ last.calls = <<>>
       /\ Ledgers = last.before

\* a non-fungible asset of the relay's own location, refused on deposit
C6_Witness ==
    /\ last.op = "deposit"
    /\ Resolvable
    /\ last.asset = ConcreteNonFungible(X1Parent)
    /\ ~last.ok

\* C7: a successful withdraw returns the asset it was given, unchanged,
\* after exactly one debit: burn(id, account, raw) for Token(id), otherwise
\* the native debit of (account, convert(raw)) that removes an account
\* drained to zero.
C7_WithdrawEcho ==
    (last.op = "withdraw" /\ last.ok)
    => /\ last.ret = <<last.asset>>
       /\ Len(last.calls) = 1
       /\ IsRelay(last.asset) \/ IsDecodable(last.asset)
       /\ IsDecodable(last.asset) =>
            LET id == TagKey(last.asset)[1] IN
            /\ last.calls = <<Call("burn", id, Who, Raw)>>
            /\ tokenBal = [last.before.tokenBal EXCEPT ![id][Who] = @ - Raw]
            /\ nativeBal = last.before.native.bal
            /\ nativeExists = last.before.native.exists
       /\ IsRelay(last.asset) =>
            LET amount == convert(Raw).val IN
            /\ last.calls = <<Call("withdraw_AllowDeath", 0, Who, amount)>>
            /\ nativeBal = [last.before.native.bal EXCEPT ![Who] = @ - amount]
            /\ nativeBal[Who] = 0 => ~nativeExists[Who]
            /\ tokenBal = last.before.tokenBal

\* a native withdraw that drains the account and removes it
C7_Witness ==
    /\ last.op = "withdraw"
    /\ last.ok
    /\ last.asset = ConcreteFungible(X1Parent, 1)
    /\ last.ret = <<ConcreteFungible(X1Parent, 1)>>
    /\ last.before.native.exists[<<10>>]
    /\ ~nativeExists[<<10>>]

\* C8: no amount overflows silently: a relay amount reaches a ledger only as
\* raw * 1_000_000 and a tagged amount only as raw, and an amount that does
\* not fit the target width makes the call fail with no ledger call (a trap
\* of the overflow is counted as such a failure, a wrapped amount is not).
C8_NoSilentOverflow ==
    (Called /\ Resolvable /\ (IsRelay(last.asset) \/ IsDecodable(last.asset)))
    => LET fits == IF IsRelay(last.asset) THEN Raw <= (BMod - 1) \div 1000000
                   ELSE Raw < BMod
       IN /\ fits =>
               /\ Len(last.calls) = 1
               /\ last.calls[1].amount =
                     IF IsRelay(last.asset) THEN Raw * 1000000 ELSE Raw
          /\ ~fits => /\ ~last.ok
                       /\ last.kind \in {"AmountMismatch", "Panic"}
                       /\ last.calls = <<>>

\* C9: from_asset returns the configured relay currency for the relay's own
\* location, Token(id) with id the decoded key for a last segment that is a
\* decodable key, and no currency for every other asset.
C9_CurrencyResolver ==
    Called =>
        LET r == from_asset(last.asset) IN
        /\ IsRelay(last.asset) =>
              r.tag = "Some" /\ r.val = RelayChainCurrencyId
        /\ IsDecodable(last.asset) =>
              r.tag = "Some" /\ r.val = Token(decode(TagKey(last.asset)).val)
        /\ ~IsRelay(last.asset) /\ ~IsDecodable(last.asset) => r.tag = "None"
        /\ r.tag = "None" => last.calls = <<>> /\ ~last.ok

\* a key that is the last of two segments, resolved to its token
C9_Witness ==
    /\ last.asset = ConcreteFungible(<<Parent, GeneralKey(<<1>>)>>, 500)
    /\ last.calls = <<Call("mint", 1, <<10>>, 500)>>

\* C10: in every successful call an amount that reaches the native ledger
\* comes from the relay's own location and was rescaled by convert, and an
\* amount that reaches the token ledger comes from a tagged key and was not.
C10_LedgerMatchesRescale ==
    (Called /\ last.ok)
    => \A i \in 1..Len(last.calls) :
          LET c == last.calls[i] IN
          /\ c.fn \in {"deposit_creating", "withdraw_AllowDeath"} =>
                IsRelay(last.asset) /\ c.amount = convert(Raw).val
          /\ c.fn \in {"mint", "burn"} =>
                IsTagged(last.asset) /\ c.amount = Raw

\* both ledgers have been reached, each by its own kind of asset
C10_Witness ==
    /\ last.ok
    /\ last.op = "withdraw"
    /\ IsRelay(last.asset)
    /\ last.calls[1].fn = "withdraw_AllowDeath"
    /\ tokenBal[1][<<11>>] = 500

====
